---- MODULE Spec2Model ----
(***************************************************************************)
(* Evaluation and decision engine of the startup investment pipeline:      *)
(* Scorer (Berkus + Scorecard), DecisionMaker (grade, risk, reasons,       *)
(* warnings), the EvaluationRAG criteria normalisation and the criteria    *)
(* loaders of Scorer and GrowthAgent.                                      *)
(*                                                                         *)
(* Numbers.  Scores are kept in hundredths of a point (11.4 is 1140), the  *)
(* scale at which the code rounds (round(x, 2)).  A weights dict is kept   *)
(* as integer numerators over one denominator (30 is 30/1, 0.30 is         *)
(* 300/1000), so that v / total is exact.  Growth rates and thresholds are *)
(* kept in thousandths (0.18 is 180).  Lists are kept by their length, the *)
(* only thing the scoring code reads of them.  round() and int() are       *)
(* modelled on the exact decimal value, ties of round() to even.           *)
(*                                                                         *)
(* Strings.  The Korean literals of the source are written in ASCII:       *)
(* risk levels "high" / "medium" / "low", the Korean stage names as        *)
(* "ko:Series A", "ko:Seed" and so on.                                     *)
(***************************************************************************)
EXTENDS Integers, Sequences, FiniteSets, TLC

VARIABLES
    state,          \* the InvestmentState dict shared by the workflow nodes
    pc,             \* position of the evaluation run
    raised,         \* the exception that ended the run, "" when none
    rag_knowledge,  \* Scorer.rag_knowledge, loaded by Scorer.__init__
    search_has_berkus, \* whether the retrieved text holds the word "Berkus"
    llm_berkus,     \* the dict parsed from the LLM's Berkus extraction
    llm_scorecard,  \* the dict parsed from the LLM's Scorecard extraction
    berkus_result,  \* outcome of EvaluationRAG.get_berkus_criteria
    scorecard_result, \* outcome of EvaluationRAG.get_scorecard_weights
    rag_fails,      \* the EvaluationRAG operations that raise in this process
    rag_inits,      \* number of EvaluationRAG() constructions so far
    rag_queries,    \* number of queries so far, per criteria category
    scorer_built,   \* whether Scorer.__init__ has run
    shared_knowledge, \* GrowthAgent._shared_knowledge, the class-level cache
    growth_agent,   \* the GrowthAgent constructed last
    analyzers_built, \* the analyzers (TechAnalyzer, MarketAnalyzer) constructed
    next_node,      \* the node the compiled workflow runs next
    executed,       \* the workflow nodes run so far, in order
    returned,       \* whether run_workflow has returned the final state
    company,        \* profile.name of the state, "" when there is none
    report_fails,   \* whether writing the report file raises in this run
    growth_result,  \* what GrowthAgent.run returned to run_pipeline
    history,        \* the evaluations completed earlier in this process
    signals         \* the growth rate GrowthAgent extracted, its score and label

evalVars == <<state, pc, raised>>
criteriaVars == <<search_has_berkus, llm_berkus, llm_scorecard,
                  berkus_result, scorecard_result>>
loadVars == <<rag_fails, rag_inits, rag_queries, scorer_built,
              shared_knowledge, growth_agent, analyzers_built>>
workflowVars == <<next_node, executed, returned, company, report_fails>>
runVars == <<workflowVars, growth_result, history, signals>>
vars == <<evalVars, rag_knowledge, criteriaVars, loadVars, runVars>>

-----------------------------------------------------------------------------
(* Python values *)

\* a key that is missing from a dict
Absent == -9001
\* a key that is present with the value None
None == -9002

\* a key that is present with a non-numeric value (a non-empty str such as "N/A")
NonNumeric == -9003

\* dict.get(key, default)
Get(v, d) == IF v = Absent THEN d ELSE v

\* truth value of a number, a list length or None
Truthy(v) == v \notin {Absent, None, 0}

\* len(d.get(key, []))
ListLen(v) == Get(v, 0)

Min(a, b) == IF a <= b THEN a ELSE b

\* round(n / d) for d > 0, ties to even
RoundDiv(n, d) ==
    LET q == n \div d
        r == n % d
    IN  IF 2 * r < d THEN q
        ELSE IF 2 * r > d THEN q + 1
        ELSE IF q % 2 = 0 THEN q ELSE q + 1

\* a dict is falsy when it has no key
NonEmpty(sec) == \E f \in DOMAIN sec : sec[f] # Absent

\* a or b, for two dicts
SectionOr(a, b) == IF NonEmpty(a) THEN a ELSE b

-----------------------------------------------------------------------------
(* Bounds of the explored inputs *)

\* longest pmf_signals list
MaxPmf == 4
\* longest patents / core_technology / strengths / weaknesses list
MaxList == 3

-----------------------------------------------------------------------------
(* The state dict *)

EmptyTech == [trl_level |-> Absent, patents |-> Absent,
              core_technology |-> Absent, score |-> Absent, summary |-> Absent]

EmptyMarket == [TAM |-> Absent, growth_rate |-> Absent,
                pmf_signals |-> Absent, summary |-> Absent]

EmptyBreakdown == [berkus |-> Absent, scorecard |-> Absent, final |-> Absent]

EmptyDecision == [grade |-> "", decision |-> "", risk_level |-> "",
                  reasons |-> <<>>, warnings |-> <<>>, final_score |-> Absent]

StageAbsent == "<absent>"
StageNone == "<None>"

\* create_initial_state(): every section an empty dict
create_initial_state ==
    [space |-> EmptyTech, tech_analysis |-> EmptyTech,
     market |-> EmptyMarket, market_analysis |-> EmptyMarket,
     funding |-> [stage |-> StageAbsent, total_funding_krw |-> Absent],
     comparison |-> [our_strengths |-> Absent, our_weaknesses |-> Absent],
     growth |-> [score |-> Absent],
     survival_analysis |-> [funding_history |-> Absent],
     score |-> Absent,
     score_breakdown |-> EmptyBreakdown,
     decision |-> EmptyDecision]

\* TechAnalyzer._calculate_score
TechCalculateScore(trl_level, patents, core_tech) ==
    (IF Truthy(trl_level) THEN Min(RoundDiv(trl_level * 4000, 9), 4000) ELSE 0)
    + Min(patents * 10, 30) * 100
    + Min(core_tech * 10, 30) * 100

\* the tech_data dict TechAnalyzer.run stores under "space" and "tech_analysis"
TechData(trl_level, patents, core_tech) ==
    [trl_level |-> trl_level, patents |-> patents, core_technology |-> core_tech,
     score |-> TechCalculateScore(trl_level, patents, core_tech), summary |-> 1]

\* the dict MarketAnalyzer.run stores under "market"
MarketData(tam, growth_rate, pmf) ==
    [TAM |-> tam, growth_rate |-> growth_rate, pmf_signals |-> pmf, summary |-> 1]

-----------------------------------------------------------------------------
(* Scorer *)

\* ScorerConfig
berkus_weight == 4
scorecard_weight == 6

\* keys _calculate_scorecard looks up in the weights dict
ScorerKeys == {"management", "opportunity", "product", "competitive_environment",
               "marketing", "need_for_funding", "other"}

\* a dict without keys
EmptyDict == [k \in {} |-> 0]

\* A weights dict: the weight of key k is data[k] / den.
\* an empty weights dict
NoWeights == [data |-> EmptyDict, den |-> 1]

\* the rag_knowledge dict {} of a Scorer whose criteria load failed
NoKnowledge == [berkus_criteria |-> EmptyDict, scorecard_weights |-> NoWeights]

\* default_weights of _calculate_scorecard
default_weights ==
    [data |-> [k \in ScorerKeys |->
                  CASE k = "management" -> 30
                    [] k = "opportunity" -> 25
                    [] k = "product" -> 15
                    [] k = "competitive_environment" -> 10
                    [] k = "marketing" -> 10
                    [] k = "need_for_funding" -> 5
                    [] k = "other" -> 5],
     den |-> 1]

\* total Berkus allocation, 100 points
max_score == 2500000

\* a team_info that holds a team of 20
team_info_collected == [team_size |-> 20, key_people |-> Absent]

\* team_info = {}: team data is not collected
team_info == [team_size |-> Absent, key_people |-> Absent]

\* Scorer.run raises TypeError: None > 0 on a null total_funding_krw, and an
\* ordering comparison of a str with a number on a non-numeric trl_level
\* (trl >= 7), TAM (tam >= 100) or total_funding_krw (total_funding > 0)
ScorerRaises(st) ==
    \/ SectionOr(st.tech_analysis, st.space).trl_level = NonNumeric
    \/ st.funding.total_funding_krw \in {None, NonNumeric}
    \/ SectionOr(st.market_analysis, st.market).TAM = NonNumeric

\* funding_history = [1] if total_funding > 0 else []
FundingHistoryLen(st) ==
    IF Get(st.funding.total_funding_krw, 0) > 0 THEN 1 ELSE 0

\* an idea tier that grants the partial allocation from TRL 1 on
BerkusIdeaTwoTier(tech) ==
    IF Truthy(tech.trl_level)
    THEN IF tech.trl_level >= 7 THEN 500000 ELSE 300000
    ELSE 0

BerkusIdea(tech) ==
    IF Truthy(tech.trl_level)
    THEN IF tech.trl_level >= 7 THEN 500000
         ELSE IF tech.trl_level >= 4 THEN 300000
         ELSE 100000
    ELSE 0

\* the prototype tier granted at TRL 6 only (== for >=)
BerkusPrototypeExact(tech) ==
    IF tech.trl_level # Absent /\ tech.trl_level # None /\ tech.trl_level = 6
    THEN 500000
    ELSE IF Truthy(tech.core_technology) THEN 250000
    ELSE 0

BerkusPrototype(tech) ==
    IF tech.trl_level # Absent /\ tech.trl_level # None /\ tech.trl_level >= 6
    THEN 500000
    ELSE IF Truthy(tech.core_technology) THEN 250000
    ELSE 0

BerkusTeam ==
    IF Get(team_info.team_size, 0) >= 20 THEN 500000
    ELSE IF Get(team_info.team_size, 0) >= 10 THEN 300000
    ELSE IF Truthy(team_info.key_people) THEN 200000
    ELSE 0

BerkusRelationships(st) ==
    IF FundingHistoryLen(st) >= 2 THEN 500000
    ELSE IF FundingHistoryLen(st) >= 1 THEN 300000
    ELSE 0

BerkusRollout(market_analysis) ==
    IF ListLen(market_analysis.pmf_signals) >= 3 THEN 500000
    ELSE IF ListLen(market_analysis.pmf_signals) >= 1 THEN 300000
    ELSE 0

\* Scorer._calculate_berkus, in hundredths of a point
CalculateBerkus(st) ==
    LET tech_analysis == SectionOr(st.tech_analysis, st.space)
        market_analysis == SectionOr(st.market_analysis, st.market)
        total_value == BerkusIdea(tech_analysis) + BerkusPrototype(tech_analysis)
                       + BerkusTeam + BerkusRelationships(st)
                       + BerkusRollout(market_analysis)
    IN  RoundDiv(total_value, max_score \div 10000)

ManagementScore ==
    IF Get(team_info.team_size, 0) >= 20 THEN 100
    ELSE IF Get(team_info.team_size, 0) >= 10 THEN 70
    ELSE IF Truthy(team_info.key_people) THEN 50
    ELSE 30

OpportunityScore(tam) ==
    IF tam >= 100 THEN 100
    ELSE IF tam >= 50 THEN 80
    ELSE IF tam >= 10 THEN 60
    ELSE 40

\* Scorer._calculate_scorecard under the weights dict kn holds, in hundredths.
\* W(k, d) is weights.get(k, d) as a numerator over weights.den.
CalculateScorecard(st, kn) ==
    LET weights == IF DOMAIN kn.scorecard_weights.data # {}
                   THEN kn.scorecard_weights ELSE default_weights
        W(k, d) == IF k \in DOMAIN weights.data
                   THEN weights.data[k] ELSE d * weights.den
        market_analysis == SectionOr(st.market_analysis, st.market)
        tech_analysis == SectionOr(st.tech_analysis, st.space)
        market == SectionOr(st.market, market_analysis)
        tam == Get(market_analysis.TAM, 0)
        product_score == Get(tech_analysis.score, 0)
        competitive_score == Min(ListLen(st.comparison.our_strengths) * 30, 100)
        marketing_score == Min(ListLen(market.pmf_signals) * 30, 100)
        funding_score == Min(FundingHistoryLen(st) * 30, 100)
        other_score == Get(st.growth.score, 0)
        total_score ==
            ManagementScore * 100 * W("management", 30)
            + OpportunityScore(tam) * 100 * W("opportunity", 25)
            + product_score * W("product", 15)
            + competitive_score * 100 * W("competitive_environment", 10)
            + marketing_score * 100 * W("marketing", 10)
            + funding_score * 100 * W("need_for_funding", 5)
            + other_score * W("other", 5)
    IN  RoundDiv(total_score, 100 * weights.den)

\* the weighted mean with the two weights swapped
FinalScoreSwapped(berkus_score, scorecard_score) ==
    RoundDiv(berkus_score * scorecard_weight + scorecard_score * berkus_weight, 10)

\* the weighted mean of Scorer.run, rounded to 2 decimals
FinalScore(berkus_score, scorecard_score) ==
    RoundDiv(berkus_score * berkus_weight + scorecard_score * scorecard_weight, 10)

\* a result that leaves the score of the state as it was
ScorerRunBreakdownOnly(st, kn) ==
    LET berkus_score == CalculateBerkus(st)
        scorecard_score == CalculateScorecard(st, kn)
        final_score == FinalScore(berkus_score, scorecard_score)
    IN  [score |-> st.score,
         score_breakdown |-> [berkus |-> berkus_score,
                              scorecard |-> scorecard_score,
                              final |-> final_score]]

\* the dict Scorer.run returns
ScorerRun(st, kn) ==
    LET berkus_score == CalculateBerkus(st)
        scorecard_score == CalculateScorecard(st, kn)
        final_score == FinalScore(berkus_score, scorecard_score)
    IN  [score |-> final_score,
         score_breakdown |-> [berkus |-> berkus_score,
                              scorecard |-> scorecard_score,
                              final |-> final_score]]

-----------------------------------------------------------------------------
(* DecisionMaker *)

\* DecisionMakerConfig.grade_thresholds
grade_thresholds == [S |-> 9000, A |-> 7500, B |-> 6000, C |-> 4500, D |-> 0]

\* _determine_grade with the lower bounds exclusive (> for >=)
DetermineGradeExclusive(score) ==
    LET hits == {g \in DOMAIN grade_thresholds : score > grade_thresholds[g]}
    IN  IF hits = {} THEN "D"
        ELSE CHOOSE g \in hits :
                 \A h \in hits : grade_thresholds[g] >= grade_thresholds[h]

\* DecisionMaker._determine_grade: thresholds in descending order, first match
DetermineGrade(score) ==
    LET hits == {g \in DOMAIN grade_thresholds : score >= grade_thresholds[g]}
    IN  IF hits = {} THEN "D"
        ELSE CHOOSE g \in hits :
                 \A h \in hits : grade_thresholds[g] >= grade_thresholds[h]

\* DecisionMaker._make_decision (the Korean recommendation texts)
MakeDecision(grade) ==
    CASE grade = "S" -> "top priority investment"
      [] grade = "A" -> "active investment"
      [] grade = "B" -> "conditional investment"
      [] grade = "C" -> "investment on hold"
      [] grade = "D" -> "no investment"
      [] OTHER -> "judgement on hold"

\* stages _assess_risk does not count as a risk
MatureStages == {"Series A", "Series B", "Series C", "ko:Series A", "ko:Series B"}

\* stages _generate_warnings warns about
SeedStages == {"Seed", "Pre-Seed", "ko:Seed", "ko:Pre-Seed"}

\* truth value of funding.get("stage", "")
StageTruthy(stage) == stage \notin {StageAbsent, StageNone, ""}

\* DecisionMaker.run raises TypeError: None < 10 on a null total_funding_krw,
\* and an ordering comparison of a str with a number on a non-numeric
\* trl_level (trl_level < 7), TAM (tam < 10), total_funding_krw
\* (total_funding < 10) or growth_rate (growth_rate >= 0.15)
DecisionRaises(st) ==
    \/ SectionOr(st.space, st.tech_analysis).trl_level = NonNumeric
    \/ SectionOr(st.market, st.market_analysis).TAM = NonNumeric
    \/ st.funding.total_funding_krw \in {None, NonNumeric}
    \/ SectionOr(st.market, st.market_analysis).growth_rate = NonNumeric

\* _assess_risk with stage and total funding counted as one factor
RiskFactorsMerged(st) ==
    LET tech == SectionOr(st.space, st.tech_analysis)
        market == SectionOr(st.market, st.market_analysis)
        trl_level == Get(tech.trl_level, None)
        B(c) == IF c THEN 1 ELSE 0
    IN  B(trl_level = None \/ trl_level < 7)
        + B(ListLen(tech.patents) = 0)
        + B(Get(market.TAM, 0) < 10)
        + B(ListLen(market.pmf_signals) < 2)
        + B(\/ StageTruthy(st.funding.stage) /\ st.funding.stage \notin MatureStages
            \/ Get(st.funding.total_funding_krw, 0) < 10)
        + B(ListLen(st.comparison.our_weaknesses)
                > ListLen(st.comparison.our_strengths))

\* the number of risk factors _assess_risk counts
RiskFactors(st) ==
    LET tech == SectionOr(st.space, st.tech_analysis)
        market == SectionOr(st.market, st.market_analysis)
        trl_level == Get(tech.trl_level, None)
        B(c) == IF c THEN 1 ELSE 0
    IN  B(trl_level = None \/ trl_level < 7)
        + B(ListLen(tech.patents) = 0)
        + B(Get(market.TAM, 0) < 10)
        + B(ListLen(market.pmf_signals) < 2)
        + B(StageTruthy(st.funding.stage) /\ st.funding.stage \notin MatureStages)
        + B(Get(st.funding.total_funding_krw, 0) < 10)
        + B(ListLen(st.comparison.our_weaknesses)
                > ListLen(st.comparison.our_strengths))

\* _assess_risk with the high threshold exclusive (> 5 for >= 5)
AssessRiskExclusive(st) ==
    IF RiskFactors(st) > 5 THEN "high"
    ELSE IF RiskFactors(st) >= 3 THEN "medium"
    ELSE "low"

\* DecisionMaker._assess_risk
AssessRisk(st) ==
    IF RiskFactors(st) >= 5 THEN "high"
    ELSE IF RiskFactors(st) >= 3 THEN "medium"
    ELSE "low"

\* one templated sentence: its template and the number formatted into it
\* (Absent when the template takes none, None when it prints N/A)
Entry(text, value) == [text |-> text, value |-> value]

Opt(cond, e) == IF cond THEN <<e>> ELSE <<>>

\* lst[:5]
Take5(lst) == SubSeq(lst, 1, Min(5, Len(lst)))

\* DecisionMaker._generate_reasons
GenerateReasons(st, grade) ==
    LET tech == SectionOr(st.space, st.tech_analysis)
        market == SectionOr(st.market, st.market_analysis)
        trl_level == Get(tech.trl_level, None)
        tam == Get(market.TAM, 0)
        growth_rate == Get(market.growth_rate, 0)
        total_funding == Get(st.funding.total_funding_krw, 0)
        our_strengths == ListLen(st.comparison.our_strengths)
        reasons ==
            Opt(trl_level # None /\ trl_level >= 7, Entry("high TRL", trl_level))
            \o Opt(ListLen(tech.patents) >= 3,
                   Entry("strong IP portfolio", ListLen(tech.patents)))
            \o Opt(tam >= 50, Entry("large market", tam))
            \o Opt(Truthy(growth_rate) /\ growth_rate >= 150,
                   Entry("high market growth", growth_rate))
            \o Opt(ListLen(market.pmf_signals) >= 3, Entry("strong PMF", Absent))
            \o Opt(total_funding >= 50, Entry("stable funding", total_funding))
            \o Opt(our_strengths >= 3, Entry("competitive edge", our_strengths))
        opening ==
            Opt(grade = "S", Entry("excellent on every indicator", Absent))
            \o Opt(grade = "A", Entry("good on most indicators", Absent))
            \o Opt(grade = "B", Entry("potential, needs improvement", Absent))
    IN  Take5(opening \o reasons)

\* warnings with the risk-tier line appended after the checklist
GenerateWarningsAppended(st, risk_level) ==
    LET tech == SectionOr(st.space, st.tech_analysis)
        market == SectionOr(st.market, st.market_analysis)
        trl_level == Get(tech.trl_level, None)
        tam == Get(market.TAM, 0)
        total_funding == Get(st.funding.total_funding_krw, 0)
        stage == st.funding.stage
        our_weaknesses == ListLen(st.comparison.our_weaknesses)
        warnings ==
            Opt(trl_level = None \/ trl_level < 7, Entry("low TRL", trl_level))
            \o Opt(ListLen(tech.patents) = 0, Entry("no patents", Absent))
            \o Opt(tam < 10, Entry("limited market", tam))
            \o Opt(ListLen(market.pmf_signals) < 2, Entry("PMF unverified", Absent))
            \o Opt(total_funding < 10, Entry("limited funding", total_funding))
            \o Opt(~StageTruthy(stage) \/ stage \in SeedStages,
                   Entry("early stage", Absent))
            \o Opt(our_weaknesses >= 3, Entry("competitive weaknesses", our_weaknesses))
        opening ==
            Opt(risk_level = "high", Entry("high investment risk", Absent))
            \o Opt(risk_level = "medium", Entry("medium risk", Absent))
    IN  Take5(warnings \o opening)

\* DecisionMaker._generate_warnings
GenerateWarnings(st, risk_level) ==
    LET tech == SectionOr(st.space, st.tech_analysis)
        market == SectionOr(st.market, st.market_analysis)
        trl_level == Get(tech.trl_level, None)
        tam == Get(market.TAM, 0)
        total_funding == Get(st.funding.total_funding_krw, 0)
        stage == st.funding.stage
        our_weaknesses == ListLen(st.comparison.our_weaknesses)
        warnings ==
            Opt(trl_level = None \/ trl_level < 7, Entry("low TRL", trl_level))
            \o Opt(ListLen(tech.patents) = 0, Entry("no patents", Absent))
            \o Opt(tam < 10, Entry("limited market", tam))
            \o Opt(ListLen(market.pmf_signals) < 2, Entry("PMF unverified", Absent))
            \o Opt(total_funding < 10, Entry("limited funding", total_funding))
            \o Opt(~StageTruthy(stage) \/ stage \in SeedStages,
                   Entry("early stage", Absent))
            \o Opt(our_weaknesses >= 3, Entry("competitive weaknesses", our_weaknesses))
        opening ==
            Opt(risk_level = "high", Entry("high investment risk", Absent))
            \o Opt(risk_level = "medium", Entry("medium risk", Absent))
    IN  Take5(opening \o warnings)

\* the score DecisionMaker.run grades:
\* state.get("score_breakdown", {}).get("final") or state.get("score", 0.0)
DecisionScore(st) ==
    IF Truthy(st.score_breakdown.final) THEN st.score_breakdown.final
    ELSE Get(st.score, 0)

\* DecisionMaker.run with a feedback from the warnings to the grade and the
\* risk: three or more warnings force risk high and lower the grade one tier
DecisionMakerRunFeedback(st) ==
    LET final_score == DecisionScore(st)
        raw == DetermineGrade(final_score)
        warnings == GenerateWarnings(st, AssessRisk(st))
        feedback == Len(warnings) >= 3
        grade == IF ~feedback THEN raw
                 ELSE IF raw \in {"S", "A"} THEN "B"
                 ELSE IF raw = "B" THEN "C"
                 ELSE raw
        risk_level == IF feedback THEN "high" ELSE AssessRisk(st)
    IN  [grade |-> grade,
         decision |-> MakeDecision(grade),
         risk_level |-> risk_level,
         reasons |-> GenerateReasons(st, grade),
         warnings |-> warnings,
         final_score |-> final_score]

\* the decision dict DecisionMaker.run returns
DecisionMakerRun(st) ==
    LET final_score == DecisionScore(st)
        grade == DetermineGrade(final_score)
        risk_level == AssessRisk(st)
    IN  [grade |-> grade,
         decision |-> MakeDecision(grade),
         risk_level |-> risk_level,
         reasons |-> GenerateReasons(st, grade),
         warnings |-> GenerateWarnings(st, risk_level),
         final_score |-> final_score]

-----------------------------------------------------------------------------
(* EvaluationRAG: criteria extraction and normalisation *)

\* sum(d.values())
RECURSIVE SumOver(_, _)
SumOver(f, keys) ==
    IF keys = {} THEN 0
    ELSE LET k == CHOOSE x \in keys : TRUE
         IN  f[k] + SumOver(f, keys \ {k})

SumValues(f) == SumOver(f, DOMAIN f)

\* the categories of the Berkus extraction
BerkusKeys == {"sound_idea", "prototype", "quality_team",
               "strategic_relationships", "product_rollout"}

\* the categories of the Scorecard extraction
ScorecardKeys == {"management_team", "size_of_opportunity", "product_technology",
                  "competitive_environment", "marketing_sales",
                  "need_for_investment", "other"}

\* the English -> Korean key mapping both getters apply (Korean written "ko:<key>")
KoKey(k) ==
    CASE k = "sound_idea" -> "ko:sound_idea"
      [] k = "prototype" -> "ko:prototype"
      [] k = "quality_team" -> "ko:quality_team"
      [] k = "strategic_relationships" -> "ko:strategic_relationships"
      [] k = "product_rollout" -> "ko:product_rollout"
      [] k = "management_team" -> "ko:management_team"
      [] k = "size_of_opportunity" -> "ko:size_of_opportunity"
      [] k = "product_technology" -> "ko:product_technology"
      [] k = "competitive_environment" -> "ko:competitive_environment"
      [] k = "marketing_sales" -> "ko:marketing_sales"
      [] k = "need_for_investment" -> "ko:need_for_investment"
      [] k = "other" -> "ko:other"
      [] OTHER -> k

\* {mapping.get(k, k): v for k, v in data.items()}
MapKeys(data) ==
    [k2 \in {KoKey(k) : k \in DOMAIN data} |->
        data[CHOOSE k \in DOMAIN data : KoKey(k) = k2]]

\* EvaluationRAG._get_berkus_fallback
BerkusFallback == [k \in BerkusKeys |-> 500000]

\* EvaluationRAG._get_scorecard_fallback, in thousandths
ScorecardFallback ==
    [k \in ScorecardKeys |->
        CASE k = "management_team" -> 300
          [] k = "size_of_opportunity" -> 250
          [] k = "product_technology" -> 150
          [] k = "competitive_environment" -> 100
          [] k = "marketing_sales" -> 100
          [] k = "need_for_investment" -> 50
          [] k = "other" -> 50]

\* the fixed Berkus total the getter normalises to
BerkusTotal == 2500000

\* {k: int(v * factor)} with factor = 2500000 / total, for total # 0
NormalizeBerkus(data) ==
    LET total == SumValues(data)
    IN  IF total # BerkusTotal
        THEN [k \in DOMAIN data |-> (data[k] * BerkusTotal) \div total]
        ELSE data

\* EvaluationRAG.get_berkus_criteria: what it returns, or that it raises
\* (ZeroDivisionError on caps summing to 0)
GetBerkusCriteria(has_keyword, data) ==
    IF ~has_keyword
    THEN [status |-> "returned", data |-> BerkusFallback]
    ELSE IF SumValues(data) = 0
    THEN [status |-> "raised", data |-> EmptyDict]
    ELSE [status |-> "returned", data |-> MapKeys(NormalizeBerkus(data))]

\* thousandths of the tolerance 0.01 of get_scorecard_weights
ScorecardTolerance == 10

\* the tolerance test with 0.1 for 0.01
OutOfToleranceLoose(total) ==
    total - 1000 > 10 * ScorecardTolerance \/ 1000 - total > 10 * ScorecardTolerance

\* abs(total - 1.0) > 0.01
OutOfTolerance(total) ==
    total - 1000 > ScorecardTolerance \/ 1000 - total > ScorecardTolerance

\* {k: v / total} when the sum is out of tolerance: numerators over den
NormalizeScorecard(data) ==
    LET total == SumValues(data)
    IN  IF OutOfTolerance(total)
        THEN [data |-> data, den |-> total]
        ELSE [data |-> data, den |-> 1000]

\* EvaluationRAG.get_scorecard_weights: what it returns, or that it raises
\* (ZeroDivisionError on weights summing to 0)
GetScorecardWeights(data) ==
    IF SumValues(data) = 0
    THEN [status |-> "raised", weights |-> NoWeights]
    ELSE [status |-> "returned",
          weights |-> [data |-> MapKeys(NormalizeScorecard(data).data),
                       den |-> NormalizeScorecard(data).den]]

\* no call made yet
NoBerkusResult == [status |-> "none", data |-> EmptyDict]
NoScorecardResult == [status |-> "none", weights |-> NoWeights]

\* the getter calls, as steps of the criteria source
CallGetBerkusCriteria ==
    /\ berkus_result.status = "none"
    /\ berkus_result' = GetBerkusCriteria(search_has_berkus, llm_berkus)
    /\ UNCHANGED <<evalVars, rag_knowledge, loadVars, runVars, search_has_berkus,
                   llm_berkus, llm_scorecard, scorecard_result>>

CallGetScorecardWeights ==
    /\ scorecard_result.status = "none"
    /\ scorecard_result' = GetScorecardWeights(llm_scorecard)
    /\ UNCHANGED <<evalVars, rag_knowledge, loadVars, runVars, search_has_berkus,
                   llm_berkus, llm_scorecard, berkus_result>>

-----------------------------------------------------------------------------
(* Criteria loaders: Scorer._load_rag_knowledge, GrowthAgent._load_knowledge *)

\* most GrowthAgent constructions explored
MaxAgents == 2

\* the operations of the criteria source that can raise
RagOps == {"init", "berkus", "scorecard", "growth_thresholds", "pmf_signals"}
Categories == RagOps \ {"init"}

\* thresholds get_growth_thresholds extracts (its keys mapped to Korean:
\* excellent, good, warning), in thousandths
RetrievedThresholds == [excellent |-> 100, good |-> 70, warning |-> 10]

\* the signal list get_pmf_signals extracts
RetrievedPmfSignals == <<"customers come for the product", "press calls",
                         "hiring surges", "orders outrun capacity">>

\* default_thresholds of GrowthAgent.__init__
default_thresholds == [excellent |-> 100, good |-> 50, warning |-> 10]

\* the default PMF catalog of GrowthAgent.__init__
default_pmf_signals == <<"customers come for the product", "press calls",
                         "word of mouth", "hiring demand surges", "orders flood">>

\* whether the query of one category raises: the source fails, or the getter
\* itself raises on what was extracted
QueryRaises(cat) ==
    \/ cat \in rag_fails
    \/ cat = "berkus"
       /\ GetBerkusCriteria(search_has_berkus, llm_berkus).status = "raised"
    \/ cat = "scorecard" /\ GetScorecardWeights(llm_scorecard).status = "raised"

\* Scorer._load_rag_knowledge: one try around the constructor and both getters
LoadRagKnowledge ==
    IF "init" \in rag_fails \/ QueryRaises("berkus") \/ QueryRaises("scorecard")
    THEN NoKnowledge
    ELSE [berkus_criteria |-> GetBerkusCriteria(search_has_berkus, llm_berkus).data,
          scorecard_weights |-> GetScorecardWeights(llm_scorecard).weights]

\* the queries _load_rag_knowledge gets to make before it returns
ScorerQueries ==
    IF "init" \in rag_fails THEN {}
    ELSE IF QueryRaises("berkus") THEN {"berkus"}
    ELSE {"berkus", "scorecard"}

\* Scorer.__init__
ScorerInit ==
    /\ ~scorer_built
    /\ scorer_built' = TRUE
    /\ rag_knowledge' = LoadRagKnowledge
    /\ rag_inits' = rag_inits + 1
    /\ rag_queries' = [c \in Categories |->
                          rag_queries[c] + (IF c \in ScorerQueries THEN 1 ELSE 0)]
    /\ UNCHANGED <<evalVars, criteriaVars, runVars, rag_fails, shared_knowledge,
                   growth_agent, analyzers_built>>

\* GrowthAgent._shared_knowledge = None
NoSharedKnowledge ==
    [cached |-> FALSE, growth_thresholds |-> EmptyDict, pmf_signals |-> <<>>,
     berkus |-> EmptyDict, scorecard |-> NoWeights]

\* the knowledge dict GrowthAgent._load_knowledge builds on a cache miss:
\* {} when the constructor raises, else one try per category
BuildKnowledge ==
    IF "init" \in rag_fails
    THEN [NoSharedKnowledge EXCEPT !.cached = TRUE]
    ELSE [cached |-> TRUE,
          growth_thresholds |-> IF QueryRaises("growth_thresholds")
                                THEN EmptyDict ELSE RetrievedThresholds,
          pmf_signals |-> IF QueryRaises("pmf_signals")
                          THEN <<>> ELSE RetrievedPmfSignals,
          berkus |-> IF QueryRaises("berkus") THEN EmptyDict
                     ELSE GetBerkusCriteria(search_has_berkus, llm_berkus).data,
          scorecard |-> IF QueryRaises("scorecard") THEN NoWeights
                        ELSE GetScorecardWeights(llm_scorecard).weights]

\* GrowthAgent._load_knowledge
LoadKnowledge == IF shared_knowledge.cached THEN shared_knowledge ELSE BuildKnowledge

\* a construction that loads again when the cached knowledge is empty
GrowthAgentInitRetry ==
    LET reuse == shared_knowledge.cached
                 /\ shared_knowledge # [NoSharedKnowledge EXCEPT !.cached = TRUE]
        loaded == IF reuse THEN shared_knowledge ELSE BuildKnowledge
    IN  /\ growth_agent.built < MaxAgents
        /\ shared_knowledge' = loaded
        /\ growth_agent' =
              [built |-> growth_agent.built + 1,
               growth_thresholds |->
                   IF DOMAIN loaded.growth_thresholds # {}
                   THEN loaded.growth_thresholds ELSE default_thresholds,
               pmf_signals |->
                   IF loaded.pmf_signals # <<>>
                   THEN loaded.pmf_signals ELSE default_pmf_signals]
        /\ rag_inits' = rag_inits + (IF reuse THEN 0 ELSE 1)
        /\ rag_queries' =
              [c \in Categories |->
                  rag_queries[c]
                  + (IF reuse \/ "init" \in rag_fails THEN 0 ELSE 1)]
        /\ UNCHANGED <<evalVars, criteriaVars, runVars, rag_knowledge, rag_fails,
                       scorer_built, analyzers_built>>

\* GrowthAgent.__init__ without a knowledge argument
GrowthAgentInit ==
    /\ growth_agent.built < MaxAgents
    /\ shared_knowledge' = LoadKnowledge
    /\ growth_agent' =
          [built |-> growth_agent.built + 1,
           growth_thresholds |->
               IF DOMAIN LoadKnowledge.growth_thresholds # {}
               THEN LoadKnowledge.growth_thresholds ELSE default_thresholds,
           pmf_signals |->
               IF LoadKnowledge.pmf_signals # <<>>
               THEN LoadKnowledge.pmf_signals ELSE default_pmf_signals]
    /\ rag_inits' = rag_inits + (IF shared_knowledge.cached THEN 0 ELSE 1)
    /\ rag_queries' =
          [c \in Categories |->
              rag_queries[c]
              + (IF shared_knowledge.cached \/ "init" \in rag_fails THEN 0 ELSE 1)]
    /\ UNCHANGED <<evalVars, criteriaVars, runVars, rag_knowledge, rag_fails,
                   scorer_built, analyzers_built>>

\* TechAnalyzer.__init__: _load_rag_knowledge builds its own EvaluationRAG
\* and queries the Berkus criteria
TechAnalyzerInit ==
    /\ "tech" \notin analyzers_built
    /\ analyzers_built' = analyzers_built \cup {"tech"}
    /\ rag_inits' = rag_inits + 1
    /\ rag_queries' = [rag_queries EXCEPT
                          !["berkus"] = @ + (IF "init" \in rag_fails THEN 0 ELSE 1)]
    /\ UNCHANGED <<evalVars, criteriaVars, runVars, rag_knowledge, rag_fails,
                   scorer_built, shared_knowledge, growth_agent>>

\* MarketAnalyzer.__init__: _load_rag_knowledge builds its own EvaluationRAG
\* and queries the PMF signals
MarketAnalyzerInit ==
    /\ "market" \notin analyzers_built
    /\ analyzers_built' = analyzers_built \cup {"market"}
    /\ rag_inits' = rag_inits + 1
    /\ rag_queries' = [rag_queries EXCEPT
                          !["pmf_signals"] = @ + (IF "init" \in rag_fails THEN 0 ELSE 1)]
    /\ UNCHANGED <<evalVars, criteriaVars, runVars, rag_knowledge, rag_fails,
                   scorer_built, shared_knowledge, growth_agent>>

\* no GrowthAgent constructed yet
NoGrowthAgent == [built |-> 0, growth_thresholds |-> EmptyDict, pmf_signals |-> <<>>]

-----------------------------------------------------------------------------
(* Input states of an evaluation run *)

\* TRL values TechAnalyzer extracts (None when the corpus names none)
TrlValues == {None, 3, 6, 7, 9}
ListSizes == {0, MaxList}
\* TAM in $B as MarketAnalyzer extracts it; Absent when tam_sam_som has no TAM
TamValues == {Absent, 5, 100}
\* market growth rate (None when not found)
GrowthRates == {None, 180}
PmfCounts == 0..MaxPmf
\* funding.total_funding_krw: missing, null (hydrate_state, company finder) or a number
FundingValues == {Absent, None, 5, 60}
\* funding.stage: missing, null or a stage name
Stages == {StageAbsent, StageNone, "Seed", "Series A", "Pre-Series A"}
StrengthSizes == {Absent, MaxList}
WeaknessSizes == {Absent, 1, MaxList}
\* growth.score as GrowthAgent stores it
GrowthScores == {6500}
\* state["score"] as a caller presets it before DecisionMaker.run (78.5 in _demo)
PresetScores == {Absent, 7850}

FundingSections == [stage : Stages, total_funding_krw : FundingValues]

\* states after the analysis nodes have stored their sections
AnalysedStates ==
    {[create_initial_state EXCEPT
        !.space = TechData(t, p, c), !.tech_analysis = TechData(t, p, c),
        !.market = MarketData(tam, g, pmf),
        !.funding = f,
        !.comparison = [our_strengths |-> s, our_weaknesses |-> w],
        !.growth = [score |-> gs],
        !.score = ps] :
        t \in TrlValues, p \in ListSizes, c \in ListSizes,
        tam \in TamValues, g \in GrowthRates, pmf \in PmfCounts,
        f \in FundingSections, s \in StrengthSizes, w \in WeaknessSizes,
        gs \in GrowthScores, ps \in PresetScores}

\* the state of create_initial_state, with what hydrate_state stores in funding
HydratedStates ==
    {[create_initial_state EXCEPT !.funding = f, !.score = ps] :
        f \in FundingSections, ps \in PresetScores}

\* tech score and growth score a caller can store in the state, which the
\* Scorecard passes through: -200 and 1000 points, and the -120 and -20
\* points that bring the Scorecard score of an otherwise empty state to 0
PassThroughScores == {-20000, -12000, -2000, 100000}

\* states holding only the two pass-through scores, and a preset score
PassThroughStates ==
    {[create_initial_state EXCEPT !.space.score = ts, !.growth.score = gs,
                                  !.score = ps] :
        ts \in PassThroughScores \cup {Absent},
        gs \in PassThroughScores \cup {Absent},
        ps \in PresetScores}

\* the criteria source before any call, answering with its fallback extraction
CriteriaIdle ==
    /\ search_has_berkus = TRUE
    /\ llm_berkus = BerkusFallback
    /\ llm_scorecard = ScorecardFallback
    /\ berkus_result = NoBerkusResult
    /\ scorecard_result = NoScorecardResult

\* no agent constructed, nothing loaded
LoadIdle ==
    /\ rag_fails = {}
    /\ rag_inits = 0
    /\ rag_queries = [c \in Categories |-> 0]
    /\ scorer_built = FALSE
    /\ shared_knowledge = NoSharedKnowledge
    /\ growth_agent = NoGrowthAgent
    /\ analyzers_built = {}

\* GrowthAgent.run not called
NoGrowthResult == [returned |-> FALSE, state |-> create_initial_state]

\* no growth rate scored or labelled yet
NoSignals(growth_rate) ==
    [growth_rate |-> growth_rate, scored |-> FALSE,
     growth_rate_score |-> [num |-> 0, den |-> 1], label |-> ""]

\* the agents called directly, outside a workflow run
RunIdle ==
    /\ next_node = "none"
    /\ executed = <<>>
    /\ returned = FALSE
    /\ company = ""
    /\ report_fails = FALSE
    /\ growth_result = NoGrowthResult
    /\ history = <<>>
    /\ signals = NoSignals(None)

EvalIdle ==
    /\ state = create_initial_state
    /\ pc = "start"
    /\ raised = ""

Init ==
    /\ state \in AnalysedStates \cup HydratedStates \cup PassThroughStates
    /\ pc = "start"
    /\ raised = ""
    /\ rag_knowledge = NoKnowledge
    /\ CriteriaIdle
    /\ LoadIdle
    /\ RunIdle

-----------------------------------------------------------------------------
(* Workflow nodes *)

\* edges with market_analysis and growth_analysis in each other's place
SuccessorSwapped(node) ==
    CASE node = "candidate_selection" -> "tech_analysis"
      [] node = "tech_analysis" -> "growth_analysis"
      [] node = "growth_analysis" -> "market_analysis"
      [] node = "market_analysis" -> "competitor_analysis"
      [] node = "competitor_analysis" -> "scoring"
      [] node = "scoring" -> "decision"
      [] node = "decision" -> "report_generation"
      [] node = "report_generation" -> "END"

\* the edges create_workflow adds: the node that follows each node
Successor(node) ==
    CASE node = "candidate_selection" -> "tech_analysis"
      [] node = "tech_analysis" -> "market_analysis"
      [] node = "market_analysis" -> "growth_analysis"
      [] node = "growth_analysis" -> "competitor_analysis"
      [] node = "competitor_analysis" -> "scoring"
      [] node = "scoring" -> "decision"
      [] node = "decision" -> "report_generation"
      [] node = "report_generation" -> "END"

\* the entry point create_workflow sets
EntryPoint == "candidate_selection"

\* an invoke that goes on to the successor of a node that raised
AdvanceContinue(node, ok) ==
    IF next_node = "none"
    THEN UNCHANGED <<next_node, executed>>
    ELSE /\ executed' = Append(executed, node)
         /\ next_node' = Successor(node)

\* What app.invoke does after a node function: when the node returned, it
\* goes on to the node's successor; when it raised, the exception leaves
\* invoke and no further node runs.  Outside a workflow run ("none") the
\* agent was called directly and there is nothing to advance.
Advance(node, ok) ==
    IF next_node = "none"
    THEN UNCHANGED <<next_node, executed>>
    ELSE /\ executed' = Append(executed, node)
         /\ next_node' = IF ok THEN Successor(node) ELSE "halted"

\* node_scoring with a Scorer whose run rescales the weights dict it used in
\* place (percent to fraction), so that the loaded criteria drift between runs
NodeScoringDrift ==
    /\ pc = "start"
    /\ next_node \in {"none", "scoring"}
    /\ Advance("scoring", ~ScorerRaises(state))
    /\ UNCHANGED <<returned, company, report_fails, growth_result, history, signals>>
    /\ IF ScorerRaises(state)
       THEN /\ pc' = "failed"
            /\ raised' = "TypeError"
            /\ UNCHANGED <<state, rag_knowledge>>
       ELSE /\ state' = [state EXCEPT
                           !.score = ScorerRun(state, rag_knowledge).score,
                           !.score_breakdown =
                               ScorerRun(state, rag_knowledge).score_breakdown]
            /\ pc' = "scored"
            /\ rag_knowledge' =
                  [rag_knowledge EXCEPT !.scorecard_weights =
                      [data |-> default_weights.data,
                       den |-> 100 * (IF DOMAIN rag_knowledge.scorecard_weights.data = {}
                                      THEN 1 ELSE rag_knowledge.scorecard_weights.den)]]
            /\ UNCHANGED raised
    /\ UNCHANGED <<criteriaVars, loadVars>>

\* node_scoring: result = scorer.run(state); state.update(result)
NodeScoring ==
    /\ pc = "start"
    /\ next_node \in {"none", "scoring"}
    /\ Advance("scoring", ~ScorerRaises(state))
    /\ UNCHANGED <<returned, company, report_fails, growth_result, history, signals>>
    /\ IF ScorerRaises(state)
       THEN /\ pc' = "failed"
            /\ raised' = "TypeError"
            /\ UNCHANGED state
       ELSE /\ state' = [state EXCEPT
                           !.score = ScorerRun(state, rag_knowledge).score,
                           !.score_breakdown =
                               ScorerRun(state, rag_knowledge).score_breakdown]
            /\ pc' = "scored"
            /\ UNCHANGED raised
    /\ UNCHANGED <<rag_knowledge, criteriaVars, loadVars>>

\* node_decision: result = decision_maker.run(state); state.update(result)
\* (also DecisionMaker.run on a state no Scorer has scored, as in _demo)
NodeDecision ==
    /\ pc \in {"start", "scored"}
    /\ next_node \in {"none", "decision"}
    /\ Advance("decision", ~DecisionRaises(state))
    /\ UNCHANGED <<returned, company, report_fails, growth_result, history, signals>>
    /\ IF DecisionRaises(state)
       THEN /\ pc' = "failed"
            /\ raised' = "TypeError"
            /\ UNCHANGED state
       ELSE /\ state' = [state EXCEPT !.decision = DecisionMakerRun(state)]
            /\ pc' = "decided"
            /\ UNCHANGED raised
    /\ UNCHANGED <<rag_knowledge, criteriaVars, loadVars>>

Next == NodeScoring \/ NodeDecision

\* names the candidate selector can store as profile.name ("" when the
\* selected candidate carries no name)
CandidateNames == {"", "telepix"}

\* node_candidate_selection: the first candidate's name becomes profile.name
NodeCandidateSelection ==
    /\ next_node = "candidate_selection"
    /\ company' \in CandidateNames
    /\ Advance("candidate_selection", TRUE)
    /\ UNCHANGED <<evalVars, rag_knowledge, criteriaVars, loadVars, returned,
                   report_fails, growth_result, history, signals>>

\* A node whose agent raises ValueError when the state names no company;
\* otherwise state.update(result) with one of the results the agent can return.
AnalysisNode(node, results) ==
    /\ next_node = node
    /\ Advance(node, company # "")
    /\ IF company = ""
       THEN /\ pc' = "failed"
            /\ raised' = "ValueError"
            /\ UNCHANGED state
       ELSE /\ state' \in results
            /\ UNCHANGED <<pc, raised>>
    /\ UNCHANGED <<rag_knowledge, criteriaVars, loadVars, returned, company,
                   report_fails, growth_result, history, signals>>

\* node_tech_analysis
NodeTechAnalysis ==
    AnalysisNode("tech_analysis",
        {[state EXCEPT !.space = TechData(t, p, MaxList),
                       !.tech_analysis = TechData(t, p, MaxList)] :
            t \in {None, 9}, p \in ListSizes})

\* node_market_analysis
NodeMarketAnalysis ==
    AnalysisNode("market_analysis",
        {[state EXCEPT !.market = MarketData(tam, 180, pmf)] :
            tam \in {Absent, 100}, pmf \in {0, MaxPmf}})

\* GrowthAgent.run: a deep copy of the state with the growth score stored
GrowthAgentRun(st, score) == [st EXCEPT !.growth = [score |-> score]]

\* node_growth_analysis
NodeGrowthAnalysis ==
    AnalysisNode("growth_analysis",
        {GrowthAgentRun(state, gs) : gs \in GrowthScores})

\* node_competitor_analysis
NodeCompetitorAnalysis ==
    AnalysisNode("competitor_analysis",
        {[state EXCEPT !.comparison = [our_strengths |-> sw[1],
                                       our_weaknesses |-> sw[2]]] :
            sw \in {<<MaxList, 1>>, <<Absent, MaxList>>}})

\* node_report_generation: ReportGenerator.run writes the report file
NodeReportGeneration ==
    /\ next_node = "report_generation"
    /\ Advance("report_generation", ~report_fails)
    /\ IF report_fails
       THEN /\ pc' = "failed"
            /\ raised' = "OSError"
       ELSE UNCHANGED <<pc, raised>>
    /\ UNCHANGED <<state, rag_knowledge, criteriaVars, loadVars, returned, company,
                   report_fails, growth_result, history, signals>>

\* run_workflow: app.invoke returned the final state
WorkflowReturn ==
    /\ next_node = "END"
    /\ ~returned
    /\ returned' = TRUE
    /\ UNCHANGED <<evalVars, rag_knowledge, criteriaVars, loadVars, next_node,
                   executed, company, report_fails, growth_result, history, signals>>

InitWorkflow ==
    /\ EvalIdle
    /\ rag_knowledge = NoKnowledge
    /\ CriteriaIdle
    /\ LoadIdle
    /\ next_node = EntryPoint
    /\ executed = <<>>
    /\ returned = FALSE
    /\ company = ""
    /\ report_fails \in BOOLEAN
    /\ growth_result = NoGrowthResult
    /\ history = <<>>
    /\ signals = NoSignals(None)

NextWorkflow ==
    \/ NodeCandidateSelection
    \/ NodeTechAnalysis
    \/ NodeMarketAnalysis
    \/ NodeGrowthAnalysis
    \/ NodeCompetitorAnalysis
    \/ NodeScoring
    \/ NodeDecision
    \/ NodeReportGeneration
    \/ WorkflowReturn

\* one run of run_workflow
SpecWorkflow == InitWorkflow /\ [][NextWorkflow]_vars

\* a growth run that writes its result into the state it was given
PipelineGrowthRunInPlace ==
    /\ next_node = "none"
    /\ pc = "start"
    /\ ~growth_result.returned
    /\ IF company = ""
       THEN /\ pc' = "failed"
            /\ raised' = "ValueError"
            /\ UNCHANGED <<growth_result, state>>
       ELSE /\ \E gs \in GrowthScores :
                  /\ state' = GrowthAgentRun(state, gs)
                  /\ growth_result' = [returned |-> TRUE,
                                       state |-> GrowthAgentRun(state, gs)]
            /\ UNCHANGED <<pc, raised>>
    /\ UNCHANGED <<rag_knowledge, criteriaVars, loadVars, workflowVars, history, signals>>

\* run_pipeline: state = growth_agent.run(state), with the state it was given
\* left as it is
PipelineGrowthRun ==
    /\ next_node = "none"
    /\ pc = "start"
    /\ ~growth_result.returned
    /\ IF company = ""
       THEN /\ pc' = "failed"
            /\ raised' = "ValueError"
            /\ UNCHANGED growth_result
       ELSE /\ \E gs \in GrowthScores :
                  growth_result' = [returned |-> TRUE,
                                    state |-> GrowthAgentRun(state, gs)]
            /\ UNCHANGED <<pc, raised>>
    /\ UNCHANGED <<state, rag_knowledge, criteriaVars, loadVars, workflowVars, history, signals>>

InitPipeline ==
    /\ state \in HydratedStates
    /\ pc = "start"
    /\ raised = ""
    /\ rag_knowledge = NoKnowledge
    /\ CriteriaIdle
    /\ LoadIdle
    /\ next_node = "none"
    /\ executed = <<>>
    /\ returned = FALSE
    /\ company \in CandidateNames
    /\ report_fails = FALSE
    /\ growth_result = NoGrowthResult
    /\ history = <<>>
    /\ signals = NoSignals(None)

NextPipeline == PipelineGrowthRun \/ NodeScoring \/ NodeDecision

\* the agents called one by one on a hydrated state
SpecPipeline == InitPipeline /\ [][NextPipeline]_vars

\* evaluation runs over analysed and hydrated states
Spec == Init /\ [][Next]_vars

-----------------------------------------------------------------------------
(* Grading over a grid of preset scores *)

\* the grid of state["score"] values, in steps of 0.1 from -5.0 to 101.0
GridScores == {10 * n : n \in -50..1010}

InitGrade ==
    /\ state \in {[create_initial_state EXCEPT !.score = s] : s \in GridScores}
    /\ pc = "start"
    /\ raised = ""
    /\ rag_knowledge = NoKnowledge
    /\ CriteriaIdle
    /\ LoadIdle
    /\ RunIdle

SpecGrade == InitGrade /\ [][Next]_vars

-----------------------------------------------------------------------------
(* The criteria getters over the extractions the LLM can return *)

\* caps the LLM extraction can hold for one Berkus category
BerkusCaps == {0, 1, 3, 500}

\* weights (thousandths) the LLM extraction can hold for one Scorecard category;
\* no sum of seven of them lies exactly 0.01 from 1.0, where the float
\* comparison abs(total - 1.0) > 0.01 decides by representation error
ScorecardFractions == {0, 50, 54, 300}

InitCriteria ==
    /\ EvalIdle
    /\ rag_knowledge = NoKnowledge
    /\ LoadIdle
    /\ RunIdle
    /\ berkus_result = NoBerkusResult
    /\ scorecard_result = NoScorecardResult
    /\ \/ /\ search_has_berkus \in BOOLEAN
          /\ llm_berkus \in [BerkusKeys -> BerkusCaps] \cup {BerkusFallback}
          /\ llm_scorecard = ScorecardFallback
       \/ /\ search_has_berkus = TRUE
          /\ llm_berkus = BerkusFallback
          /\ llm_scorecard \in [ScorecardKeys -> ScorecardFractions]

NextCriteria == CallGetBerkusCriteria \/ CallGetScorecardWeights

SpecCriteria == InitCriteria /\ [][NextCriteria]_vars

-----------------------------------------------------------------------------
(* The criteria loaders under every set of failing operations *)

InitLoad ==
    /\ EvalIdle
    /\ rag_knowledge = NoKnowledge
    /\ search_has_berkus = TRUE
    /\ llm_berkus \in {BerkusFallback, [k \in BerkusKeys |-> 0]}
    /\ llm_scorecard \in {ScorecardFallback, [k \in ScorecardKeys |-> 0]}
    /\ berkus_result = NoBerkusResult
    /\ scorecard_result = NoScorecardResult
    /\ rag_fails \in SUBSET RagOps
    /\ rag_inits = 0
    /\ rag_queries = [c \in Categories |-> 0]
    /\ scorer_built = FALSE
    /\ shared_knowledge = NoSharedKnowledge
    /\ growth_agent = NoGrowthAgent
    /\ analyzers_built = {}
    /\ RunIdle

NextLoad == TechAnalyzerInit \/ MarketAnalyzerInit \/ GrowthAgentInit \/ ScorerInit

SpecLoad == InitLoad /\ [][NextLoad]_vars

-----------------------------------------------------------------------------
(* Evaluation runs over states with one signal of the wrong type *)

\* the numeric signals a payload can hold with a non-numeric value
ShapeFields == {"trl_level", "TAM", "growth_rate", "total_funding_krw"}

\* the state st with the value v stored under one signal
WithSignal(st, field, v) ==
    CASE field = "trl_level" ->
            [st EXCEPT !.space.trl_level = v, !.tech_analysis.trl_level = v]
      [] field = "TAM" -> [st EXCEPT !.market.TAM = v]
      [] field = "growth_rate" -> [st EXCEPT !.market.growth_rate = v]
      [] field = "total_funding_krw" -> [st EXCEPT !.funding.total_funding_krw = v]

\* analysed states whose every signal is numeric
NumericStates ==
    {[create_initial_state EXCEPT
        !.space = TechData(t, p, MaxList), !.tech_analysis = TechData(t, p, MaxList),
        !.market = MarketData(tam, g, pmf),
        !.funding = [stage |-> sg, total_funding_krw |-> tf],
        !.comparison = [our_strengths |-> MaxList, our_weaknesses |-> 1],
        !.growth = [score |-> gs]] :
        t \in {6, 9}, p \in ListSizes, tam \in {5, 100}, g \in {30, 180},
        pmf \in {0, MaxPmf}, sg \in {"Seed", "Series A"}, tf \in {5, 60},
        gs \in GrowthScores}

InitShape ==
    /\ state \in {WithSignal(st, f, NonNumeric) : st \in NumericStates, f \in ShapeFields}
    /\ pc = "start"
    /\ raised = ""
    /\ rag_knowledge = NoKnowledge
    /\ CriteriaIdle
    /\ LoadIdle
    /\ RunIdle

SpecShape == InitShape /\ [][Next]_vars

-----------------------------------------------------------------------------
(* Repeated evaluations by the same Scorer and DecisionMaker *)

\* most evaluations kept in the history
MaxRuns == 2

\* the criteria a Scorer holds after loading the fallback extractions
FallbackKnowledge ==
    [berkus_criteria |-> MapKeys(BerkusFallback),
     scorecard_weights |-> [data |-> MapKeys(ScorecardFallback), den |-> 1000]]

\* the states evaluated again and again
RepeatInputs ==
    {[create_initial_state EXCEPT
        !.space = TechData(t, MaxList, MaxList),
        !.tech_analysis = TechData(t, MaxList, MaxList),
        !.market = MarketData(100, 180, MaxPmf),
        !.funding = [stage |-> "Series A", total_funding_krw |-> tf],
        !.comparison = [our_strengths |-> MaxList, our_weaknesses |-> 1],
        !.growth = [score |-> gs]] :
        t \in {6, 9}, tf \in {None, 60}, gs \in GrowthScores}
    \cup {create_initial_state}

\* the state a run was given: its state without the keys the run stored
InputOf(st) ==
    [st EXCEPT !.score = Absent, !.score_breakdown = EmptyBreakdown,
               !.decision = EmptyDecision]

\* The module-level scorer and decision_maker are used for a further
\* evaluation: the finished run is kept in the history when it was scored and
\* decided, and the next run starts on any input.
NextEvaluation ==
    /\ next_node = "none"
    /\ pc \in {"decided", "failed"}
    /\ Len(history) < MaxRuns
    /\ history' = IF pc = "decided" /\ state.score_breakdown.final # Absent
                  THEN Append(history, [input |-> InputOf(state),
                                        score_breakdown |-> state.score_breakdown,
                                        decision |-> state.decision])
                  ELSE history
    /\ state' \in RepeatInputs
    /\ pc' = "start"
    /\ raised' = ""
    /\ UNCHANGED <<rag_knowledge, criteriaVars, loadVars, workflowVars, growth_result,
                   signals>>

InitRepeat ==
    /\ state \in RepeatInputs
    /\ pc = "start"
    /\ raised = ""
    /\ rag_knowledge \in {NoKnowledge, FallbackKnowledge}
    /\ CriteriaIdle
    /\ LoadIdle
    /\ next_node = "none"
    /\ executed = <<>>
    /\ returned = FALSE
    /\ company = ""
    /\ report_fails = FALSE
    /\ growth_result = NoGrowthResult
    /\ history = <<>>
    /\ signals = NoSignals(None)

NextRepeat == NodeScoring \/ NodeDecision \/ NextEvaluation

SpecRepeat == InitRepeat /\ [][NextRepeat]_vars

-----------------------------------------------------------------------------
(* Properties *)

Abs(n) == IF n < 0 THEN -n ELSE n

\* the grade table of the specification
TableGrade(s) ==
    IF s >= 9000 THEN "S"
    ELSE IF s >= 7500 THEN "A"
    ELSE IF s >= 6000 THEN "B"
    ELSE IF s >= 4500 THEN "C"
    ELSE "D"

Decided == pc = "decided"
\* the decision graded a score the Scorer computed in this run
ScoredRun == state.score_breakdown.final # Absent

\* C1: with the default thresholds every final score gets the grade of the
\* table S >= 90, A >= 75, B >= 60, C >= 45, D otherwise, lower bounds
\* inclusive, negative scores D.
C1_GradeTable ==
    Decided => state.decision.grade = TableGrade(state.decision.final_score)

\* 89.9 was graded A
C1_Witness ==
    Decided /\ state.decision.final_score = 8990 /\ state.decision.grade = "A"

\* C2: the final score Scorer.run returns is 0.4 x berkus + 0.6 x scorecard
\* rounded to 2 decimals, and result.score equals score_breakdown.final.
C2_WeightedFinal ==
    ScoredRun =>
        /\ state.score = state.score_breakdown.final
        /\ Abs(10 * state.score_breakdown.final
               - (4 * state.score_breakdown.berkus
                  + 6 * state.score_breakdown.scorecard)) <= 5

\* a scored run whose Berkus and Scorecard scores differ
C2_Witness ==
    /\ pc = "scored"
    /\ state.score_breakdown.berkus = 7200
    /\ state.score_breakdown.scorecard # 7200

\* every signal section as create_initial_state leaves it
AllAbsent ==
    /\ state.space = EmptyTech
    /\ state.tech_analysis = EmptyTech
    /\ state.market = EmptyMarket
    /\ state.market_analysis = EmptyMarket
    /\ state.funding = create_initial_state.funding
    /\ state.comparison = create_initial_state.comparison
    /\ state.growth = create_initial_state.growth

\* C3: on the all-absent input Scorer.run then DecisionMaker.run raise nothing
\* and the decision has grade D, risk high and exactly 5 warnings.
C3_AllAbsentDecision ==
    AllAbsent =>
        /\ pc # "failed"
        /\ (Decided /\ ScoredRun) =>
              /\ state.decision.grade = "D"
              /\ state.decision.risk_level = "high"
              /\ Len(state.decision.warnings) = 5

\* the all-absent input was scored (11.4) and decided
C3_Witness ==
    AllAbsent /\ Decided /\ state.score_breakdown.final = 1140

\* TRL 9, 3 patents, TAM 100, growth 0.18, 4 PMF signals, funding 60,
\* 3 strengths, 1 weakness
StrongCandidate ==
    /\ state.space.trl_level = 9
    /\ state.space.patents = 3
    /\ state.market.TAM = 100
    /\ state.market.growth_rate = 180
    /\ state.market.pmf_signals = 4
    /\ state.funding.total_funding_krw = 60
    /\ state.comparison.our_strengths = 3
    /\ state.comparison.our_weaknesses = 1

\* C4: the strong candidate scores berkus 100 and final >= 85, is graded S or A
\* and has risk low.
C4_StrongCandidate ==
    (StrongCandidate /\ ScoredRun) =>
        /\ state.score_breakdown.berkus = 10000
        /\ state.score_breakdown.final >= 8500
        /\ Decided =>
              /\ state.decision.grade \in {"S", "A"}
              /\ state.decision.risk_level = "low"

\* S or A becomes B, B becomes C, C and D stay
Downgraded(g) ==
    IF g \in {"S", "A"} THEN "B" ELSE IF g = "B" THEN "C" ELSE g

B01(c) == IF c THEN 1 ELSE 0

\* the tech and market sections the DecisionMaker reads
DecisionTech == SectionOr(state.space, state.tech_analysis)
DecisionMarket == SectionOr(state.market, state.market_analysis)

TrlFactor == DecisionTech.trl_level \in {Absent, None} \/ DecisionTech.trl_level < 7
PatentFactor == DecisionTech.patents \in {Absent, 0}
TamFactor == DecisionMarket.TAM = Absent \/ DecisionMarket.TAM < 10
PmfFactor == DecisionMarket.pmf_signals = Absent \/ DecisionMarket.pmf_signals < 2
StageFactor ==
    state.funding.stage \notin {StageAbsent, StageNone, "", "Series A", "Series B",
                                "Series C", "ko:Series A", "ko:Series B"}
FundingFactor ==
    state.funding.total_funding_krw = Absent \/ state.funding.total_funding_krw < 10
CompetitionFactor ==
    Get(state.comparison.our_weaknesses, 0) > Get(state.comparison.our_strengths, 0)

\* stage and total funding counted separately: up to seven factors
SevenFactors ==
    B01(TrlFactor) + B01(PatentFactor) + B01(TamFactor) + B01(PmfFactor)
    + B01(StageFactor) + B01(FundingFactor) + B01(CompetitionFactor)

\* stage or total funding counted as one factor: up to six factors
SixFactors ==
    B01(TrlFactor) + B01(PatentFactor) + B01(TamFactor) + B01(PmfFactor)
    + B01(StageFactor \/ FundingFactor) + B01(CompetitionFactor)

LevelOf(count) ==
    IF count >= 5 THEN "high" ELSE IF count >= 3 THEN "medium" ELSE "low"

C7_BerkusSumExact ==
    /\ berkus_result.status # "raised"
    /\ berkus_result.status = "returned" =>
          SumValues(berkus_result.data) = 2500000

\* sum of the returned weights, as a numerator over weights.den
WeightSum == SumValues(scorecard_result.weights.data)
WeightDen == scorecard_result.weights.den

ScorerKept(cat) ==
    IF cat = "berkus" THEN DOMAIN rag_knowledge.berkus_criteria # {}
    ELSE DOMAIN rag_knowledge.scorecard_weights.data # {}

GrowthKept(cat) ==
    CASE cat = "growth_thresholds" ->
            /\ shared_knowledge.growth_thresholds = RetrievedThresholds
            /\ growth_agent.growth_thresholds = RetrievedThresholds
      [] cat = "pmf_signals" ->
            /\ shared_knowledge.pmf_signals = RetrievedPmfSignals
            /\ growth_agent.pmf_signals = RetrievedPmfSignals
      [] cat = "berkus" -> DOMAIN shared_knowledge.berkus # {}
      [] cat = "scorecard" -> DOMAIN shared_knowledge.scorecard.data # {}

\* the query of c raises and every other operation of the source succeeds
OnlyFails(c) ==
    /\ QueryRaises(c)
    /\ "init" \notin rag_fails
    /\ \A d \in Categories \ {c} : ~QueryRaises(d)

\* C9: when one category's retrieval raises and the others succeed, both
\* loaders keep every category retrieved.
C9_PerCategoryFallback ==
    \A c \in Categories :
        OnlyFails(c) =>
            /\ scorer_built =>
                  \A d \in {"berkus", "scorecard"} \ {c} : ScorerKept(d)
            /\ growth_agent.built > 0 =>
                  \A d \in Categories \ {c} : GrowthKept(d)

\* C10: a missing or null total funding never makes Scorer.run or
\* DecisionMaker.run raise, and the funding categories score their floor.
C10_AbsentNeverRaises ==
    state.funding.total_funding_krw \in {Absent, None} =>
        /\ pc # "failed"
        /\ ScoredRun =>
              state.score_breakdown.berkus =
                  CalculateBerkus([state EXCEPT !.funding.total_funding_krw = 0])

\* the signal of the state that holds a non-numeric value
WrongField ==
    CHOOSE f \in ShapeFields : WithSignal(state, f, NonNumeric) = state

\* C11: a state with a non-numeric growth_rate, trl_level, TAM or total
\* funding is scored and decided without an error, with the score and the
\* decision of the same state with that signal absent.
C11_WrongTypeAsAbsent ==
    (\E f \in ShapeFields : WithSignal(state, f, NonNumeric) = state) =>
        /\ pc # "failed"
        /\ ScoredRun =>
              state.score_breakdown =
                  ScorerRun(WithSignal(state, WrongField, Absent),
                            rag_knowledge).score_breakdown
        /\ Decided =>
              state.decision = DecisionMakerRun(WithSignal(state, WrongField, Absent))

\* the breakdown Scorer.run returns for the state with TRL 6 in place of its TRL
AtTrl6 == ScorerRun(WithSignal(state, "trl_level", 6), rag_knowledge).score_breakdown

\* C13: a state with TRL 7 scores a Berkus score and a final score no lower
\* than the same state with TRL 6.
C13_TrlMonotone ==
    (ScoredRun /\ SectionOr(state.tech_analysis, state.space).trl_level = 7) =>
        /\ state.score_breakdown.berkus >= AtTrl6.berkus
        /\ state.score_breakdown.final >= AtTrl6.final

\* a TRL 7 state was scored, above what it scores with TRL 6
C13_Witness ==
    /\ pc = "scored"
    /\ state.space.trl_level = 7
    /\ state.score_breakdown.berkus > AtTrl6.berkus
    /\ state.score_breakdown.final > AtTrl6.final

\* C14: the Berkus score, the Scorecard score and the final score Scorer.run
\* returns each lie in 0..100, whatever tech score and growth score the state
\* holds.
C14_ScoresInRange ==
    ScoredRun =>
        /\ state.score_breakdown.berkus \in 0..10000
        /\ state.score_breakdown.scorecard \in 0..10000
        /\ state.score_breakdown.final \in 0..10000

\* the numbers the reasons and warnings of the decision print in a template
RenderedValues(text) ==
    {state.decision.reasons[i].value :
        i \in {j \in DOMAIN state.decision.reasons :
                  state.decision.reasons[j].text = text}}
    \cup {state.decision.warnings[i].value :
             i \in {j \in DOMAIN state.decision.warnings :
                       state.decision.warnings[j].text = text}}

\* C15: when TAM or total funding is absent from the state, no reason and no
\* warning of the decision prints its value as 0.
C15_AbsentNotZero ==
    Decided =>
        /\ DecisionMarket.TAM = Absent =>
              0 \notin RenderedValues("limited market") \cup RenderedValues("large market")
        /\ state.funding.total_funding_krw = Absent =>
              0 \notin RenderedValues("limited funding")
                       \cup RenderedValues("stable funding")

\* C16: for every grade the reasons list of the decision starts with a
\* grade-tier opening line, so it is never empty.
C16_ReasonsOpening ==
    Decided =>
        /\ Len(state.decision.reasons) >= 1
        /\ state.decision.reasons[1].value = Absent
        /\ state.decision.reasons[1].text \notin
              {"high TRL", "strong IP portfolio", "large market",
               "high market growth", "strong PMF", "stable funding",
               "competitive edge"}

WorkflowOrder ==
    <<"candidate_selection", "tech_analysis", "market_analysis", "growth_analysis",
      "competitor_analysis", "scoring", "decision", "report_generation">>

DecisionEmitted == state.decision.grade # ""

\* C18: once a node of the workflow has raised, the run is halted before END,
\* no later node executes, run_workflow returns no final state and no
\* decision has been emitted.
C18_HaltNoDecision ==
    [](raised # "" => (next_node = "halted" /\ ~returned /\ ~DecisionEmitted))

\* C18, amended: once a node of the workflow has raised, the run is halted
\* before END, no later node executes and run_workflow returns no final
\* state; a decision has been emitted only when the node that raised is
\* report_generation, which runs after the decision node.
C18_HaltBeforeEnd ==
    /\ [](raised # "" =>
            /\ next_node = "halted"
            /\ ~returned
            /\ executed # <<>>
            /\ (DecisionEmitted <=> executed[Len(executed)] = "report_generation"))
    /\ [][raised # "" => UNCHANGED <<executed, state, returned, next_node>>]_vars

\* an analyzer raised ValueError because the state names no company
C18_Witness ==
    /\ raised = "ValueError"
    /\ executed = <<"candidate_selection", "tech_analysis">>
    /\ next_node = "halted"

\* every agent the workflow module constructs has been constructed
AllAgentsBuilt ==
    /\ analyzers_built = {"tech", "market"}
    /\ growth_agent.built >= 1
    /\ scorer_built

\* C19: the criteria are loaded once per process: when TechAnalyzer,
\* MarketAnalyzer, GrowthAgent and Scorer have all been constructed,
\* EvaluationRAG was initialized at most once and each category was queried
\* at most once, and the Berkus criteria and Scorecard weights the Scorer
\* holds are the ones the GrowthAgent cache holds.
C19_LoadedOnce ==
    AllAgentsBuilt =>
        /\ rag_inits <= 1
        /\ \A c \in Categories : rag_queries[c] <= 1
        /\ rag_fails = {} =>
              /\ rag_knowledge.berkus_criteria = shared_knowledge.berkus
              /\ rag_knowledge.scorecard_weights = shared_knowledge.scorecard

\* the keys of the state other than the given ones are as they were
KeysKept(own) ==
    /\ DOMAIN state' = DOMAIN state
    /\ \A k \in DOMAIN state \ own : state'[k] = state[k]

\* C20: the agents treat the state they are given as read-only: a run of the
\* Scorer adds nothing to it but score and score_breakdown, a run of the
\* DecisionMaker nothing but decision, a run that raises nothing at all, and
\* GrowthAgent.run returns a copy that differs in its growth section while
\* the state passed in stays as it was.
C20_InputReadOnly ==
    [][/\ (pc = "start" /\ pc' = "scored") => KeysKept({"score", "score_breakdown"})
       /\ (pc = "scored" /\ pc' = "decided") => KeysKept({"decision"})
       /\ pc' = "failed" => state' = state
       /\ growth_result' # growth_result =>
             /\ state' = state
             /\ growth_result'.returned
             /\ \A k \in DOMAIN state \ {"growth"} :
                    growth_result'.state[k] = state[k]]_vars

\* the growth run returned a copy with a growth score the given state does
\* not hold, and the given state was then scored and decided
C20_Witness ==
    /\ growth_result.returned
    /\ growth_result.state.growth.score # state.growth.score
    /\ Decided
    /\ ScoredRun
    /\ state.decision.grade # ""

-----------------------------------------------------------------------------
(* GrowthAgent: scoring and labelling the growth rate *)

\* GrowthAgentConfig.growth_rate_weight
growth_rate_weight == 30

\* the growth rates _extract_signals can yield, in thousandths (None: missing)
SignalRates == {None, -50, 0, 5, 10, 49, 50, 70, 99, 100, 250}

\* the threshold dicts a GrowthAgent can hold: the defaults, the retrieved
\* ones, and extractions with a key missing, a zero or a different order
ThresholdDicts ==
    {default_thresholds, RetrievedThresholds,
     [excellent |-> Absent, good |-> 50, warning |-> 10],
     [excellent |-> 0, good |-> 50, warning |-> 0],
     [excellent |-> 50, good |-> 100, warning |-> 10]}

\* a score that keeps the rate above the excellent threshold unclamped
ScoreGrowthRateUnclamped(growth_rate, growth_thresholds) ==
    IF growth_rate = None THEN [num |-> 0, den |-> 1]
    ELSE LET got == IF growth_thresholds.excellent = Absent
                    THEN 100 ELSE growth_thresholds.excellent
             excellent == IF got <= 0 THEN 100 ELSE got
         IN  [num |-> growth_rate * growth_rate_weight, den |-> excellent]

\* GrowthAgent._score_growth_rate, as the exact fraction num / den
ScoreGrowthRate(growth_rate, growth_thresholds) ==
    IF growth_rate = None THEN [num |-> 0, den |-> 1]
    ELSE LET got == IF growth_thresholds.excellent = Absent
                    THEN 100 ELSE growth_thresholds.excellent
             excellent == IF got <= 0 THEN 100 ELSE got
             floored == IF growth_rate > 0 THEN growth_rate ELSE 0
         IN  IF floored >= excellent
             THEN [num |-> growth_rate_weight, den |-> 1]
             ELSE [num |-> floored * growth_rate_weight, den |-> excellent]

\* a labelling that files a missing rate under the lowest label
LabelGrowthRateCritical(growth_rate, growth_thresholds) ==
    IF growth_rate = None THEN "critical"
    ELSE IF Truthy(growth_thresholds.excellent)
            /\ growth_rate >= growth_thresholds.excellent THEN "excellent"
    ELSE IF Truthy(growth_thresholds.good)
            /\ growth_rate >= growth_thresholds.good THEN "good"
    ELSE IF Truthy(growth_thresholds.warning)
            /\ growth_rate >= growth_thresholds.warning THEN "warning"
    ELSE "critical"

\* GrowthAgent._label_growth_rate
LabelGrowthRate(growth_rate, growth_thresholds) ==
    IF growth_rate = None THEN "no data"
    ELSE IF Truthy(growth_thresholds.excellent)
            /\ growth_rate >= growth_thresholds.excellent THEN "excellent"
    ELSE IF Truthy(growth_thresholds.good)
            /\ growth_rate >= growth_thresholds.good THEN "good"
    ELSE IF Truthy(growth_thresholds.warning)
            /\ growth_rate >= growth_thresholds.warning THEN "warning"
    ELSE "critical"

\* GrowthAgent._score and _summarize on the extracted growth rate
ScoreSignals ==
    /\ ~signals.scored
    /\ growth_agent.built >= 1
    /\ signals' = [signals EXCEPT
                     !.scored = TRUE,
                     !.growth_rate_score =
                         ScoreGrowthRate(signals.growth_rate,
                                         growth_agent.growth_thresholds),
                     !.label = LabelGrowthRate(signals.growth_rate,
                                               growth_agent.growth_thresholds)]
    /\ UNCHANGED <<evalVars, rag_knowledge, criteriaVars, loadVars, workflowVars,
                   growth_result, history>>

InitSignals ==
    /\ EvalIdle
    /\ rag_knowledge = NoKnowledge
    /\ CriteriaIdle
    /\ rag_fails = {}
    /\ rag_inits = 0
    /\ rag_queries = [c \in Categories |-> 0]
    /\ scorer_built = FALSE
    /\ shared_knowledge = NoSharedKnowledge
    /\ \E th \in ThresholdDicts :
          growth_agent = [built |-> 1, growth_thresholds |-> th,
                          pmf_signals |-> default_pmf_signals]
    /\ analyzers_built = {}
    /\ next_node = "none"
    /\ executed = <<>>
    /\ returned = FALSE
    /\ company = ""
    /\ report_fails = FALSE
    /\ growth_result = NoGrowthResult
    /\ history = <<>>
    /\ \E r \in SignalRates : signals = NoSignals(r)

NextSignals == ScoreSignals

\* a GrowthAgent scoring and labelling one growth rate
SpecSignals == InitSignals /\ [][NextSignals]_vars

\* the thresholds are ordered excellent > good > warning > 0
OrderedThresholds ==
    LET th == growth_agent.growth_thresholds
    IN  /\ Absent \notin {th.excellent, th.good, th.warning}
        /\ th.excellent > th.good
        /\ th.good > th.warning
        /\ th.warning > 0

\* C21: with thresholds excellent > good > warning > 0 the label of a growth
\* rate r is excellent if r >= excellent, else good if r >= good, else warning
\* if r >= warning, else critical; a missing rate gets the label "no data",
\* never critical.
C21_GrowthLabel ==
    signals.scored =>
        LET r == signals.growth_rate
            th == growth_agent.growth_thresholds
        IN  /\ r = None => signals.label = "no data"
            /\ (r # None /\ OrderedThresholds) =>
                  signals.label =
                      IF r >= th.excellent THEN "excellent"
                      ELSE IF r >= th.good THEN "good"
                      ELSE IF r >= th.warning THEN "warning"
                      ELSE "critical"

\* a rate between the good and the excellent threshold was labelled
C21_Witness ==
    /\ signals.scored
    /\ OrderedThresholds
    /\ signals.growth_rate = 70
    /\ signals.label = "good"

\* C22: with a positive excellent threshold the score of a growth rate r is
\* clamp(r, 0, excellent) / excellent x growth_rate_weight, which lies
\* between 0 and growth_rate_weight; a missing rate scores 0.
C22_GrowthRateScore ==
    signals.scored =>
        LET r == signals.growth_rate
            excellent == growth_agent.growth_thresholds.excellent
            sc == signals.growth_rate_score
            clamp == IF r < 0 THEN 0 ELSE IF r > excellent THEN excellent ELSE r
        IN  /\ r = None => sc.num = 0
            /\ (r # None /\ excellent # Absent /\ excellent > 0) =>
                  /\ sc.den > 0
                  /\ sc.num * excellent = clamp * growth_rate_weight * sc.den
                  /\ sc.num >= 0
                  /\ sc.num <= growth_rate_weight * sc.den

\* a rate above the excellent threshold scored the full weight
C22_Witness ==
    /\ signals.scored
    /\ signals.growth_rate = 250
    /\ growth_agent.growth_thresholds.excellent = 100
    /\ signals.growth_rate_score.num = growth_rate_weight * signals.growth_rate_score.den

\* the TRL the state holds under space or tech_analysis
StateTrl ==
    IF state.tech_analysis.trl_level # Absent
    THEN state.tech_analysis.trl_level ELSE state.space.trl_level

\* the allocations of the four categories other than the idea quality
OtherAllocations ==
    BerkusPrototype(SectionOr(state.tech_analysis, state.space)) + BerkusTeam
    + BerkusRelationships(state)
    + BerkusRollout(SectionOr(state.market_analysis, state.market))

\* C23: the idea-quality category of the Berkus score grants 500,000 when
\* TRL >= 7, 300,000 when TRL is 4 to 6, 100,000 when TRL is 1 to 3 and
\* nothing when TRL is absent, and the Berkus score is the sum of the five
\* categories' allocations divided by 2,500,000, times 100.
C23_IdeaAllocation ==
    (ScoredRun /\ state.tech_analysis.trl_level = state.space.trl_level) =>
        LET trl == StateTrl
            idea == IF trl \in {Absent, None} THEN 0
                    ELSE IF trl >= 7 THEN 500000
                    ELSE IF trl \in 4..6 THEN 300000
                    ELSE IF trl \in 1..3 THEN 100000
                    ELSE -1
        IN  state.score_breakdown.berkus * (max_score \div 100) =
                (idea + OtherAllocations) * 100

\* a state with TRL 3 was scored with the minimal idea allocation
C23_Witness ==
    /\ ScoredRun
    /\ StateTrl = 3
    /\ state.space.core_technology = 0
    /\ state.market.pmf_signals = 0
    /\ state.funding.total_funding_krw = Absent
    /\ state.score_breakdown.berkus = 400

-----------------------------------------------------------------------------
(* Evaluation runs over states that list the funding rounds *)

\* lengths of survival_analysis.funding_history: missing, no round, 1, 2, more
RoundCounts == {Absent, 0, 1, 2, MaxList + 1}

\* states holding a funding section and a list of funding rounds, as the
\* _demo of scorer.py builds them
RoundStates ==
    {[create_initial_state EXCEPT
        !.space = TechData(t, 0, MaxList), !.tech_analysis = TechData(t, 0, MaxList),
        !.market = MarketData(Absent, None, pmf),
        !.funding = [stage |-> "Series A", total_funding_krw |-> tf],
        !.survival_analysis = [funding_history |-> n]] :
        t \in TrlValues, pmf \in {0, 1, MaxPmf},
        tf \in {Absent, 0, 5, 60}, n \in RoundCounts}

InitRounds ==
    /\ state \in RoundStates
    /\ pc = "start"
    /\ raised = ""
    /\ rag_knowledge = NoKnowledge
    /\ CriteriaIdle
    /\ LoadIdle
    /\ RunIdle

SpecRounds == InitRounds /\ [][Next]_vars

\* the number of funding rounds the state lists for the candidate
FundingRounds == ListLen(state.survival_analysis.funding_history)

\* the Berkus allocations of the categories other than strategic relationships
AllocationsButRelationships ==
    BerkusIdea(SectionOr(state.tech_analysis, state.space))
    + BerkusPrototype(SectionOr(state.tech_analysis, state.space)) + BerkusTeam
    + BerkusRollout(SectionOr(state.market_analysis, state.market))

\* C24: the strategic-relationships category of the Berkus score grants
\* 500,000 when the candidate has 2 or more funding rounds, 300,000 when it
\* has exactly 1 round and nothing when it has none.
C24_RelationshipRounds ==
    ScoredRun =>
        state.score_breakdown.berkus * (max_score \div 100) =
            (AllocationsButRelationships
             + (IF FundingRounds >= 2 THEN 500000
                ELSE IF FundingRounds = 1 THEN 300000
                ELSE 0)) * 100

-----------------------------------------------------------------------------
(* Scoring under Scorecard weights loaded from the criteria source *)

\* extractions of the Scorecard weights, in thousandths: the fallback, one
\* that weighs the opportunity above the management, one summing to 0.9
WeightExtractions ==
    {ScorecardFallback,
     [ScorecardFallback EXCEPT !["management_team"] = 250,
                               !["size_of_opportunity"] = 300],
     [ScorecardFallback EXCEPT !["management_team"] = 200]}

\* the criteria a Scorer holds after loading one extraction
LoadedKnowledge ==
    {[berkus_criteria |-> MapKeys(BerkusFallback),
      scorecard_weights |-> GetScorecardWeights(ex).weights] :
        ex \in WeightExtractions}

\* analysed states that differ in every Scorecard sub-score but the management
WeighedStates ==
    {[create_initial_state EXCEPT
        !.space = TechData(t, MaxList, MaxList),
        !.tech_analysis = TechData(t, MaxList, MaxList),
        !.market = MarketData(tam, 180, pmf),
        !.funding = [stage |-> "Series A", total_funding_krw |-> tf],
        !.comparison = [our_strengths |-> sw, our_weaknesses |-> 1],
        !.growth = [score |-> gs]] :
        t \in {None, 9}, tam \in TamValues, pmf \in {0, MaxPmf},
        tf \in {Absent, 60}, sw \in StrengthSizes, gs \in GrowthScores}

InitWeights ==
    /\ state \in WeighedStates
    /\ pc = "start"
    /\ raised = ""
    /\ rag_knowledge \in LoadedKnowledge
    /\ CriteriaIdle
    /\ LoadIdle
    /\ RunIdle

SpecWeights == InitWeights /\ [][Next]_vars

\* the seven sub-scores of the Scorecard, in hundredths of a point, under the
\* keys of the weight extraction
SubScores ==
    [k \in ScorecardKeys |->
        CASE k = "management_team" -> ManagementScore * 100
          [] k = "size_of_opportunity" ->
                OpportunityScore(Get(SectionOr(state.market_analysis,
                                               state.market).TAM, 0)) * 100
          [] k = "product_technology" ->
                Get(SectionOr(state.tech_analysis, state.space).score, 0)
          [] k = "competitive_environment" ->
                Min(ListLen(state.comparison.our_strengths) * 30, 100) * 100
          [] k = "marketing_sales" ->
                Min(ListLen(SectionOr(state.market,
                                      state.market_analysis).pmf_signals) * 30,
                    100) * 100
          [] k = "need_for_investment" -> Min(FundingHistoryLen(state) * 30, 100) * 100
          [] k = "other" -> Get(state.growth.score, 0)]

\* sum over the seven categories of sub-score times weight, the weights as
\* numerators over den
WeightedSum(weights, den) ==
    RoundDiv(SumValues([k \in ScorecardKeys |-> SubScores[k] * weights[k]]), den)

\* C25: the Scorecard score applies the loaded weights: it is the sum over
\* the seven categories of the sub-score times the weight the criteria source
\* returned for that category.
C25_LoadedWeightsApplied ==
    (ScoredRun /\ DOMAIN rag_knowledge.scorecard_weights.data # {}) =>
        state.score_breakdown.scorecard =
            WeightedSum([k \in ScorecardKeys |->
                            rag_knowledge.scorecard_weights.data[KoKey(k)]],
                        rag_knowledge.scorecard_weights.den)

\* the risk-tier opening lines of the warnings
RiskTierLines == {"high investment risk", "medium risk"}

\* C26: the warnings of a decision are at most 5; when the risk level is
\* medium or high the first one is the opening line of that risk tier, kept
\* by the truncation, and when the risk level is low no risk-tier line
\* appears among them.
C26_WarningsOpening ==
    Decided =>
        LET warnings == state.decision.warnings
            risk_level == state.decision.risk_level
        IN  /\ Len(warnings) <= 5
            /\ risk_level = "high" =>
                  /\ Len(warnings) >= 1
                  /\ warnings[1].text = "high investment risk"
            /\ risk_level = "medium" =>
                  /\ Len(warnings) >= 1
                  /\ warnings[1].text = "medium risk"
            /\ risk_level = "low" =>
                  \A i \in DOMAIN warnings : warnings[i].text \notin RiskTierLines
            /\ \A i \in DOMAIN warnings :
                  warnings[i].text \in RiskTierLines => i = 1

\* a high-risk decision whose checklist alone exceeds the truncation
C26_Witness ==
    /\ Decided
    /\ state.decision.risk_level = "high"
    /\ Len(state.decision.warnings) = 5
    /\ state.decision.warnings[1].text = "high investment risk"
    /\ ListLen(state.comparison.our_weaknesses) >= 3
    /\ \A i \in DOMAIN state.decision.warnings :
          state.decision.warnings[i].text # "competitive weaknesses"

-----------------------------------------------------------------------------
(* Evaluation runs over states whose alias sections differ *)

\* what a section can hold beside its alias: nothing, a summary only, or the
\* analysed data
SectionShapes == {"empty", "summary", "data"}

\* a section of the given shape
Shaped(shape, empty, data) ==
    IF shape = "empty" THEN empty
    ELSE IF shape = "summary" THEN [empty EXCEPT !.summary = 1]
    ELSE data

\* the shapes of an alias pair of which at least one holds the data
AliasPairs == {p \in SectionShapes \X SectionShapes : "data" \in {p[1], p[2]}}

\* states with the analysed data under one key of each pair or under both
AliasStates ==
    {[create_initial_state EXCEPT
        !.space = Shaped(tp[1], EmptyTech, TechData(t, MaxList, MaxList)),
        !.tech_analysis = Shaped(tp[2], EmptyTech, TechData(t, MaxList, MaxList)),
        !.market = Shaped(mp[1], EmptyMarket, MarketData(tam, 180, pmf)),
        !.market_analysis = Shaped(mp[2], EmptyMarket, MarketData(tam, 180, pmf)),
        !.funding = [stage |-> "Series A", total_funding_krw |-> 60]] :
        tp \in AliasPairs, mp \in AliasPairs,
        t \in {3, 9}, tam \in {5, 100}, pmf \in {0, MaxPmf}}

InitAlias ==
    /\ state \in AliasStates
    /\ pc = "start"
    /\ raised = ""
    /\ rag_knowledge = NoKnowledge
    /\ CriteriaIdle
    /\ LoadIdle
    /\ RunIdle

SpecAlias == InitAlias /\ [][Next]_vars

\* a section holding every field that is present under either key of its pair
Merged(a, b) == [f \in DOMAIN a |-> IF a[f] # Absent THEN a[f] ELSE b[f]]

\* the state with every signal under both keys of its alias pair
MergedState ==
    [state EXCEPT !.space = Merged(state.space, state.tech_analysis),
                  !.tech_analysis = Merged(state.tech_analysis, state.space),
                  !.market = Merged(state.market, state.market_analysis),
                  !.market_analysis = Merged(state.market_analysis, state.market)]

\* C27: a signal (pmf_signals, TAM, TRL, patents) present under either key of
\* an alias pair is used by the Berkus score, the Scorecard score and the
\* decision, also when the other key holds a non-empty section without it:
\* scores, risk level and warnings are those of the state holding every signal
\* under both keys.
C27_AliasNotDropped ==
    /\ ScoredRun =>
          /\ state.score_breakdown.berkus = CalculateBerkus(MergedState)
          /\ state.score_breakdown.scorecard =
                CalculateScorecard(MergedState, rag_knowledge)
    /\ Decided =>
          /\ state.decision.risk_level = AssessRisk(MergedState)
          /\ state.decision.warnings =
                GenerateWarnings(MergedState, AssessRisk(MergedState))

-----------------------------------------------------------------------------
(* Evaluation runs over the strongest inputs *)

\* analysed states up to the strongest signals: pass-through scores of 0 and
\* 100 points, more strengths than the competitive sub-score counts, a TAM and
\* a total funding far above every threshold
StrongStates ==
    {[create_initial_state EXCEPT
        !.space = [TechData(t, MaxList, c) EXCEPT !.score = ts],
        !.tech_analysis = [TechData(t, MaxList, c) EXCEPT !.score = ts],
        !.market = MarketData(tam, 180, pmf),
        !.funding = [stage |-> "Series A", total_funding_krw |-> tf],
        !.comparison = [our_strengths |-> sw, our_weaknesses |-> 0],
        !.growth = [score |-> gs]] :
        t \in {None, 6, 9}, c \in {0, MaxList}, ts \in {0, 10000},
        tam \in {Absent, 100, 1000}, pmf \in {0, MaxPmf},
        tf \in {Absent, 60, 100000}, sw \in {0, MaxList + 1, 2 * MaxList + 1},
        gs \in {0, 10000}}

InitStrong ==
    /\ state \in StrongStates
    /\ pc = "start"
    /\ raised = ""
    /\ rag_knowledge = NoKnowledge
    /\ CriteriaIdle
    /\ LoadIdle
    /\ RunIdle

SpecStrong == InitStrong /\ [][Next]_vars

\* C28: with the default Scorecard weights and pass-through tech and growth
\* scores in 0..100 the Berkus score is at most 72, the Scorecard score at
\* most 75.5 and the final score below 75, so no decision graded from a
\* Scorer result carries grade S or A.
C28_GradeCeiling ==
    /\ ScoredRun =>
          /\ state.score_breakdown.berkus <= 7200
          /\ state.score_breakdown.scorecard <= 7550
          /\ state.score_breakdown.final < 7500
    /\ (ScoredRun /\ Decided) => state.decision.grade \notin {"S", "A"}

\* the strongest state was scored at both ceilings and graded B
C28_Witness ==
    /\ ScoredRun
    /\ Decided
    /\ state.score_breakdown.berkus = 7200
    /\ state.score_breakdown.scorecard = 7550
    /\ state.score_breakdown.final = 7410
    /\ state.decision.grade = "B"

\* the grade of a score in hundredths under the default thresholds
GradeOf(score) ==
    IF score >= 9000 THEN "S"
    ELSE IF score >= 7500 THEN "A"
    ELSE IF score >= 6000 THEN "B"
    ELSE IF score >= 4500 THEN "C"
    ELSE "D"

\* C29: after node_scoring and then node_decision have run on a state, the
\* final_score of the decision is the final score the Scorer computed in that
\* run and the grade is the grade of that score, also when that score is 0.0
\* and DecisionMaker.run falls back to state.score.
C29_DecisionUsesRunScore ==
    (ScoredRun /\ Decided) =>
        /\ state.decision.final_score = state.score_breakdown.final
        /\ state.decision.grade = GradeOf(state.score_breakdown.final)

\* a state with a preset score of 78.5 was scored 0.0 and graded on that 0.0
C29_Witness ==
    /\ ScoredRun
    /\ Decided
    /\ state.score_breakdown.final = 0
    /\ state.space.score = -12000
    /\ state.decision.final_score = 0
    /\ state.decision.grade = "D"

\* the cache holds an empty knowledge dict
CachedEmpty == shared_knowledge = [NoSharedKnowledge EXCEPT !.cached = TRUE]

\* C30: over any sequence of GrowthAgent constructions without a knowledge
\* argument the criteria source is initialized at most once: the first
\* construction initializes it and stores what it loaded in the class-level
\* cache; every later construction reuses the cache, without initializing or
\* querying the source again, also when the first load failed and cached an
\* empty knowledge, and a later agent then holds the default thresholds and
\* the default PMF catalog.
C30_GrowthLoadsOnce ==
    [][growth_agent'.built # growth_agent.built =>
          IF growth_agent.built = 0
          THEN /\ rag_inits' = rag_inits + 1
               /\ shared_knowledge'.cached
          ELSE /\ rag_inits' = rag_inits
               /\ rag_queries' = rag_queries
               /\ shared_knowledge' = shared_knowledge
               /\ growth_agent'.growth_thresholds = growth_agent.growth_thresholds
               /\ growth_agent'.pmf_signals = growth_agent.pmf_signals
               /\ CachedEmpty =>
                     /\ growth_agent'.growth_thresholds = default_thresholds
                     /\ growth_agent'.pmf_signals = default_pmf_signals]_vars

\* two GrowthAgents were constructed while the source could not be
\* initialized: one initialization, an empty cache, the defaults in use
C30_Witness ==
    /\ growth_agent.built = 2
    /\ "init" \in rag_fails
    /\ analyzers_built = {}
    /\ ~scorer_built
    /\ rag_inits = 1
    /\ CachedEmpty
    /\ growth_agent.growth_thresholds = default_thresholds

=============================================================================
